---- MODULE Spec2Model ----
(***************************************************************************)
(* Model of src/src/main.rs: decoding an ext4 volume from raw bytes.       *)
(*                                                                         *)
(* The program is the sequential pipeline of main(): decode the            *)
(* superblock, look up inode 2, classify it, look up the child "etc",      *)
(* look up that inode, classify it, look up the child "hosts", look up     *)
(* that inode, classify it, resolve its logical block 0 and read it.       *)
(*                                                                         *)
(* Values wider than 31 bits (u32/u64 offsets and block numbers) are kept  *)
(* as little-endian sequences of bytes, which is also how they lie on the  *)
(* device.  Arithmetic is exact on WLen bytes; the code's u32/u64          *)
(* arithmetic is that exact result narrowed by Ck: with overflow checks    *)
(* (the debug profile) an overflow panics, without them (the release       *)
(* profile) the result wraps.  The profile is not fixed by the source, so  *)
(* it is chosen in Init.                                                   *)
(*                                                                         *)
(* Bytes of the device are inputs: every read of the device draws the      *)
(* value read from a small set, and may fail with an I/O error.            *)
(***************************************************************************)
EXTENDS Integers, Sequences, FiniteSets, TLC

VARIABLES
    checks,      \* TRUE: arithmetic overflow panics; FALSE: it wraps
    pc,          \* position of main()
    outcome,     \* "running", "ok", "err" (Result::Err) or "panic"
    last,        \* the operation that acted last
    level,       \* number of path components resolved so far
    cur,         \* InodeNumber being resolved
    lograw,      \* the u32 read at 0x18 by Superblock::new
    sb,          \* Option of the decoded Superblock
    lk,          \* Option of the locals of InodeNumber::inode_slice
    ino,         \* Option of the decoded Inode
    ft,          \* Option of the FileType of ino
    want,        \* the name given to Inode::child, as code points
    block_index, \* loop variable of Inode::dir_entries
    ext,         \* Option of the Extent read by the last Inode::data
    data,        \* Option of the Slice returned by the last Inode::data
    offset,      \* scan cursor of Inode::dir_entries inside the block
    entries,     \* the Vec<DirectoryEntry> built by Inode::dir_entries
    at,          \* for each element of entries, <<block index, offset>> it was read at
    rd,          \* Option of the device byte range read by the last DirectoryEntry::new
    found        \* Option of the Option<InodeNumber> returned by Inode::child

vars == <<checks, pc, outcome, last, level, cur, lograw, sb, lk, ino, ft, want,
          block_index, ext, data, offset, entries, at, rd, found>>

None == <<>>
Some(x) == <<x>>
IsSome(o) == Len(o) = 1
Get(o) == o[1]

----------------------------------------------------------------------------
(* Exact arithmetic on little-endian byte sequences                        *)

Base == 256
WLen == 8 + 4

RECURSIVE ToW(_, _)
ToW(n, k) == IF k = 0 THEN <<>> ELSE <<n % Base>> \o ToW(n \div Base, k - 1)

\* a natural below 2^31 as a wide value
N(n) == ToW(n, WLen)

RECURSIVE AddFrom(_, _, _, _)
AddFrom(a, b, i, c) ==
    IF i > WLen THEN <<>>
    ELSE LET s == a[i] + b[i] + c
         IN  <<s % Base>> \o AddFrom(a, b, i + 1, s \div Base)

WAdd(a, b) == AddFrom(a, b, 1, 0)

RECURSIVE MulSmallFrom(_, _, _, _)
MulSmallFrom(a, k, i, c) ==
    IF i > WLen THEN <<>>
    ELSE LET s == a[i] * k + c
         IN  <<s % Base>> \o MulSmallFrom(a, k, i + 1, s \div Base)

\* a wide value times a natural below 2^16
MulSmall(a, k) == MulSmallFrom(a, k, 1, 0)

\* a wide value times Base^j
ShiftL(a, j) == [i \in 1..WLen |-> IF i > j THEN a[i - j] ELSE 0]

RECURSIVE MulFrom(_, _, _)
MulFrom(a, b, j) ==
    IF j > WLen THEN N(0)
    ELSE IF b[j] = 0 THEN MulFrom(a, b, j + 1)
    ELSE WAdd(ShiftL(MulSmall(a, b[j]), j - 1), MulFrom(a, b, j + 1))

WMul(a, b) == MulFrom(a, b, 1)

RECURSIVE LessFrom(_, _, _)
LessFrom(a, b, i) ==
    IF i = 0 THEN FALSE
    ELSE IF a[i] # b[i] THEN a[i] < b[i]
    ELSE LessFrom(a, b, i - 1)

WLess(a, b) == LessFrom(a, b, WLen)
WLeq(a, b) == ~WLess(b, a)

RECURSIVE Pow2Small(_)
Pow2Small(e) == IF e = 0 THEN 1 ELSE 2 * Pow2Small(e - 1)

\* 2^e for e < 8 * WLen
WPow2(e) == [i \in 1..WLen |-> IF i = (e \div 8) + 1 THEN Pow2Small(e % 8) ELSE 0]

\* the value fits an unsigned integer of the given number of bytes
Fits(a, bytes) == \A i \in 1..WLen : i > bytes => a[i] = 0

\* the value modulo 2^(8*bytes)
Trunc(a, bytes) == [i \in 1..WLen |-> IF i > bytes THEN 0 ELSE a[i]]

\* the result of an unsigned operation of the given width whose exact result is x
Ck(x, bytes) ==
    IF Fits(x, bytes) THEN [ok |-> TRUE, v |-> x]
    ELSE IF checks THEN [ok |-> FALSE, v |-> N(0)]
    ELSE [ok |-> TRUE, v |-> Trunc(x, bytes)]

----------------------------------------------------------------------------
(* Bytes the device may hold (the inputs of every read)                    *)

\* cap on the number of entries Inode::dir_entries pushes in one call
MaxEntries == 2

U32Max == [i \in 1..WLen |-> IF i <= 4 THEN 255 ELSE 0]

\* u16 at 1024+0x38: the ext4 signature 0xEF53 and another value
SbMagicVals == {61267, 4660}
\* u32 at 1024+0x18
LogVals == {N(0), N(2), N(21), N(22), U32Max}
\* u32 at 1024+0x20
BpgVals == {32768}
\* u32 at 1024+0x28
IpgVals == {0, 8192}
\* u16 at 1024+0x58
InodeSizeVals == {96, 256}
\* the u32 halves at 0x8 and 0x28 of a group descriptor
DescVals == {[lo |-> N(5), hi |-> N(0)], [lo |-> N(0), hi |-> N(1048576)]}
\* u16 at 0x0 of an inode: a directory (0o40755), a regular file (0o100644)
\* and a mode with no file-type tag
ModeVals == {16877, 33188, 420}
\* every file-type tag, with and without permission bits
AllModeVals == {t * 4096 + p : t \in 0..15, p \in {0, 420, 493, 4095}}
\* the u32 halves at 0x4 and 0x6C of an inode
SizeVals == {[lo |-> N(20), hi |-> N(0)]}
\* the u16s at 0x0, 0x2 and 0x6 of the inline area of an inode
HdrVals == {[magic |-> 62218, entries |-> e, depth |-> 0] : e \in {0, 1, 2}}
           \cup {[magic |-> 62218, entries |-> 1, depth |-> 1],
                 [magic |-> 0, entries |-> 1, depth |-> 0]}
\* a 12-byte extent record: u16 at 0x4, u16 at 0x6, u32 at 0x8
ExtVals == {[len |-> 1, hi |-> 0, lo |-> 100],
            [len |-> 1, hi |-> 2, lo |-> 100],
            [len |-> 2, hi |-> 0, lo |-> 100]}

\* "etc" and "hosts", as bytes and (being ASCII) as code points
Etc == <<101, 116, 99>>
Hosts == <<104, 111, 115, 116, 115>>
\* a directory record: u32 at 0x0, u16 at 0x4, the u8 at 0x6 is Len(name), bytes at 0x8
RecVals == {[inode |-> 0, len |-> 12, name |-> <<>>],
            [inode |-> 12, len |-> 2048, name |-> Etc],
            [inode |-> 8193, len |-> 4090, name |-> Etc],
            [inode |-> 8192, len |-> 4096, name |-> Hosts],
            [inode |-> 12, len |-> 0, name |-> <<120, 255>>]}

----------------------------------------------------------------------------
(* The decode functions                                                    *)

DescSize == 64
ExtMagic == 62218
BlockLen == 60

NoVal == [ok |-> FALSE, v |-> N(0)]

\* 2u32.pow(e): 2^e modulo 2^32 is 0 from e = 32 on
pow(e) ==
    IF Fits(e, 1) /\ e[1] < 8 * WLen THEN Ck(WPow2(e[1]), 4)
    ELSE IF checks THEN NoVal
    ELSE [ok |-> TRUE, v |-> N(0)]

\* self.u32(lo)? as u64 + ((self.u32(hi)? as u64) << 32)
u64_lohi(lo, hi) == Ck(WAdd(lo, Trunc(ShiftL(hi, 4), 8)), 8)

Superblock_new(m, lg, bpg, ipg, isz) ==
    LET e == Ck(WAdd(N(10), lg), 4)
        p == pow(e.v)
    IN  [ok |-> e.ok /\ p.ok,
         v  |-> [magic |-> m, block_size |-> p.v, blocks_per_group |-> bpg,
                 inodes_per_group |-> ipg, inode_size |-> isz]]

\* (self.0 - 1) / sb.inodes_per_group, for self.0 >= 1 and inodes_per_group > 0
blockgroup_number(n, s) == (n - 1) \div s.inodes_per_group

\* the offset of the Slice desc_slice returns; not ok when it panics
desc_slice(g, s) ==
    LET m == Ck(MulSmall(N(g), DescSize), 8)
        o == Ck(WAdd(s.block_size, m.v), 8)
    IN  [ok |-> s.block_size # N(1024) /\ m.ok /\ o.ok, v |-> o.v]

\* the Slice inode_slice returns, with its locals, given the descriptor bytes d
inode_slice(n, s, d) ==
    LET g    == blockgroup_number(n, s)
        ds   == desc_slice(g, s)
        tab  == u64_lohi(d.lo, d.hi)
        toff == Ck(WMul(tab.v, s.block_size), 8)
        idx  == (n - 1) % s.inodes_per_group
        ioff == Ck(MulSmall(N(idx), s.inode_size), 8)
        off  == Ck(WAdd(toff.v, ioff.v), 8)
    IN  [ok |-> ds.ok /\ tab.ok /\ toff.ok /\ ioff.ok /\ off.ok,
         n |-> n, group |-> g, desc_off |-> ds.v, desc |-> d, inode_table |-> tab.v,
         off |-> off.v, len |-> s.inode_size]

\* Inode::new reads u16@0x0, u32@0x4, u32@0x6C and 60 bytes @0x28 of its slice
InodeReadable(len) == len >= 112

RECURSIVE BitAnd(_, _)
BitAnd(a, b) ==
    IF a = 0 \/ b = 0 THEN 0
    ELSE (a % 2) * (b % 2) + 2 * BitAnd(a \div 2, b \div 2)

\* FileType::try_from: Some(variant) or None
FileType_try_from(v) ==
    CASE v = 4096  -> Some("Fifo")
      [] v = 8192  -> Some("CharacterDevice")
      [] v = 16384 -> Some("Directory")
      [] v = 24576 -> Some("BlockDevice")
      [] v = 32768 -> Some("Regular")
      [] v = 40960 -> Some("SymbolicLink")
      [] v = 49152 -> Some("Socket")
      [] OTHER     -> None

\* a slip: the mode is classified without masking the permission bits
filetype_nomask(i) == FileType_try_from(i.mode)

\* FileType::try_from(self.mode & 0xF000); None is the panic of unwrap()
filetype(i) == FileType_try_from(BitAnd(i.mode, 61440))

\* a slip: the header is decoded without the assertion on its magic
ExtentHeader_new_unchecked(b) ==
    [ok |-> TRUE, entries |-> b.entries, depth |-> b.depth]

\* ExtentHeader::new on the inline area; not ok when assert_eq!(magic, 0xF30A) panics
ExtentHeader_new(b) ==
    [ok |-> b.magic = ExtMagic, entries |-> b.entries, depth |-> b.depth]

\* Inode::data_count; not ok when it panics
data_count(i) ==
    LET h == ExtentHeader_new(i.block)
    IN  [ok |-> h.ok /\ h.depth = 0, v |-> h.entries]

\* the 12 bytes at 12*(index+1) lie inside the 60 inline bytes
ExtentReadable(index) == 12 * (index + 1) + 12 <= BlockLen

\* Extent::new on the record bytes e
Extent_new(e) ==
    [len |-> e.len, start |-> Ck(WAdd(Trunc(ShiftL(N(e.hi), 4), 8), N(e.lo)), 8)]

\* Inode::data for a readable record e at index: st is "ok" or "panic"
InodeData(i, s, index, e) ==
    LET h   == ExtentHeader_new(i.block)
        x   == Extent_new(e)
        off == Ck(WMul(x.start.v, s.block_size), 8)
        len == Ck(WMul(N(x.len), s.block_size), 8)
    IN  IF h.ok /\ h.depth = 0 /\ index < h.entries /\ x.start.ok /\ x.len = 1
           /\ off.ok /\ len.ok
        THEN [st |-> "ok", off |-> off.v, len |-> len.v]
        ELSE [st |-> "panic", off |-> N(0), len |-> N(0)]

\* String::from_utf8_lossy on bytes that are ASCII or 0xFF: 0xFF becomes U+FFFD
from_utf8_lossy(bytes) ==
    [k \in 1..Len(bytes) |-> IF bytes[k] < 128 THEN bytes[k] ELSE 65533]

\* DirectoryEntry::new reads u8@0x6, u32@0x0, u16@0x4 and name_len bytes @0x8
\* of a slice that ends where the block ends
EntryBytes(r) == IF Len(r.name) = 0 THEN 7 ELSE 8 + Len(r.name)
EntryReadable(off, r, size) == WLeq(N(off + EntryBytes(r)), size)

DirectoryEntry_new(r) ==
    [len |-> r.len, inode |-> r.inode, name |-> from_utf8_lossy(r.name)]

\* a slip: the last match is returned instead of the first
child_last(es, name) ==
    LET m == SelectSeq(es, LAMBDA x : x.name = name)
    IN  IF Len(m) = 0 THEN None ELSE Some(m[Len(m)].inode)

\* entries.into_iter().filter(|x| x.name == name).map(|x| x.inode).next()
child(es, name) ==
    LET m == SelectSeq(es, LAMBDA x : x.name = name)
    IN  IF Len(m) = 0 THEN None ELSE Some(Head(m).inode)

----------------------------------------------------------------------------
(* main()                                                                  *)

RootInode == 2

Init ==
    /\ checks \in BOOLEAN
    /\ pc = "start"
    /\ outcome = "running"
    /\ last = "none"
    /\ level = 0
    /\ cur = RootInode
    /\ lograw = None
    /\ sb = None
    /\ lk = None
    /\ ino = None
    /\ ft = None
    /\ want = <<>>
    /\ block_index = 0
    /\ ext = None
    /\ data = None
    /\ offset = 0
    /\ entries = <<>>
    /\ at = <<>>
    /\ rd = None
    /\ found = None

\* main() ends: o is "ok", "err" or "panic"
End(o) == pc' = "done" /\ outcome' = o

\* let sb = Superblock::new(&file)?
SuperblockNew ==
    /\ pc = "start"
    /\ last' = "Superblock::new"
    /\ \E io \in BOOLEAN, m \in SbMagicVals, lg \in LogVals, bpg \in BpgVals,
          ipg \in IpgVals, isz \in InodeSizeVals :
          LET r == Superblock_new(m, lg, bpg, ipg, isz)
          IN  IF ~io
              THEN End("err") /\ UNCHANGED <<sb, lograw>>
              ELSE /\ lograw' = Some(lg)
                   /\ IF r.ok
                      THEN sb' = Some(r.v) /\ pc' = "lookup" /\ UNCHANGED outcome
                      ELSE End("panic") /\ UNCHANGED sb
    /\ UNCHANGED <<checks, level, cur, lk, ino, ft, want, block_index, ext, data,
                   offset, entries, at, rd, found>>

\* InodeNumber(cur).inode(&sb, &file)?; iod and ioi tell whether the device
\* serves the reads of the descriptor and of the inode record
InodeLookup ==
    /\ pc = "lookup"
    /\ last' = "InodeNumber::inode"
    /\ ft' = None /\ ext' = None /\ data' = None /\ rd' = None /\ found' = None
    /\ LET s == Get(sb)
       IN  IF s.inodes_per_group = 0
           THEN End("panic") /\ UNCHANGED <<lk, ino>>
           ELSE \E d \in DescVals :
                   LET l == inode_slice(cur, s, d)
                   IN  \E iod, ioi \in BOOLEAN, md \in ModeVals, sz \in SizeVals,
                          h \in HdrVals :
                       IF s.block_size = N(1024)
                       THEN End("panic") /\ UNCHANGED <<lk, ino>>
                       ELSE IF ~iod
                       THEN End("err") /\ UNCHANGED <<lk, ino>>
                       ELSE IF ~l.ok
                       THEN End("panic") /\ UNCHANGED <<lk, ino>>
                       ELSE IF ~ioi \/ ~InodeReadable(l.len)
                       THEN End("err") /\ lk' = Some(l) /\ UNCHANGED ino
                       ELSE /\ lk' = Some(l)
                            /\ ino' = Some([mode |-> md, size |-> u64_lohi(sz.lo, sz.hi).v,
                                            block |-> h])
                            /\ pc' = "filetype"
                            /\ UNCHANGED outcome
    /\ UNCHANGED <<checks, level, cur, lograw, sb, want, block_index, offset,
                   entries, at>>

\* let t = inode.filetype(); println!(..)
Filetype ==
    /\ pc = "filetype"
    /\ last' = "Inode::filetype"
    /\ lk' = None
    /\ LET t == filetype(Get(ino))
       IN  IF IsSome(t)
           THEN /\ ft' = t
                /\ pc' = IF level < 2 THEN "child" ELSE "data"
                /\ UNCHANGED outcome
           ELSE End("panic") /\ UNCHANGED ft
    /\ UNCHANGED <<checks, level, cur, lograw, sb, ino, want, block_index, ext,
                   data, offset, entries, at, rd, found>>

\* inode.child(name, ..) enters dir_entries: self.data_count()?
ChildStart ==
    /\ pc = "child"
    /\ last' = "Inode::child"
    /\ want' = IF level = 0 THEN Etc ELSE Hosts
    /\ block_index' = 0
    /\ entries' = <<>>
    /\ at' = <<>>
    /\ IF data_count(Get(ino)).ok
       THEN pc' = "block" /\ UNCHANGED outcome
       ELSE End("panic")
    /\ UNCHANGED <<checks, level, cur, lograw, sb, lk, ino, ft, ext, data, offset,
                   rd, found>>

\* for block_index in 0..count: let data = self.data(sb, dev, block_index)?
DirBlock ==
    /\ pc = "block"
    /\ block_index < data_count(Get(ino)).v
    /\ last' = "Inode::data"
    /\ rd' = None
    /\ offset' = 0
    /\ IF ~ExtentReadable(block_index)
       THEN End("err") /\ ext' = None /\ data' = None
       ELSE \E e \in ExtVals :
               LET r == InodeData(Get(ino), Get(sb), block_index, e)
               IN  /\ ext' = Some(e)
                   /\ IF r.st = "ok"
                      THEN /\ data' = Some([off |-> r.off, len |-> r.len])
                           /\ pc' = "scan"
                           /\ UNCHANGED outcome
                      ELSE End("panic") /\ data' = None
    /\ UNCHANGED <<checks, level, cur, lograw, sb, lk, ino, ft, want, block_index,
                   entries, at, found>>

\* while offset < data_size: DirectoryEntry::new, break on inode 0, else push
ScanRecord ==
    /\ pc = "scan"
    /\ WLess(N(offset), Get(data).len)
    /\ last' = "DirectoryEntry::new"
    /\ \E io \in BOOLEAN, r \in RecVals :
          LET d  == Get(data)
              lo == WAdd(d.off, N(offset))
          IN  IF ~io \/ ~EntryReadable(offset, r, d.len)
              THEN /\ End("err")
                   /\ rd' = IF io THEN Some([lo |-> lo, hi |-> WAdd(d.off, d.len),
                                             inode |-> r.inode])
                                  ELSE None
                   /\ UNCHANGED <<offset, entries, at, block_index>>
              ELSE /\ rd' = Some([lo |-> lo, hi |-> WAdd(lo, N(EntryBytes(r))),
                                   inode |-> r.inode])
                   /\ IF r.inode = 0
                      THEN /\ pc' = "block"
                           /\ block_index' = block_index + 1
                           /\ UNCHANGED <<offset, entries, at, outcome>>
                      ELSE /\ Len(entries) < MaxEntries
                           /\ offset' = offset + r.len
                           /\ entries' = Append(entries, DirectoryEntry_new(r))
                           /\ at' = Append(at, <<block_index, offset>>)
                           /\ UNCHANGED <<pc, outcome, block_index>>
    /\ UNCHANGED <<checks, level, cur, lograw, sb, lk, ino, ft, want, ext, data,
                   found>>

\* the while loop ends because offset >= data_size
ScanEnd ==
    /\ pc = "scan"
    /\ ~WLess(N(offset), Get(data).len)
    /\ last' = "Inode::dir_entries"
    /\ pc' = "block"
    /\ block_index' = block_index + 1
    /\ UNCHANGED <<checks, outcome, level, cur, lograw, sb, lk, ino, ft, want, ext,
                   data, offset, entries, at, rd, found>>

\* dir_entries returns Ok(entries) and child returns the first match
ChildReturn ==
    /\ pc = "block"
    /\ ~(block_index < data_count(Get(ino)).v)
    /\ last' = "Inode::child"
    /\ found' = Some(child(entries, want))
    /\ pc' = "expect"
    /\ UNCHANGED <<checks, outcome, level, cur, lograw, sb, lk, ino, ft, want,
                   block_index, ext, data, offset, entries, at, rd>>

\* .expect("... should exist"), then the next component
Expect ==
    /\ pc = "expect"
    /\ last' = "expect"
    /\ entries' = <<>>
    /\ at' = <<>>
    /\ IF IsSome(Get(found))
       THEN /\ cur' = Get(Get(found))
            /\ level' = level + 1
            /\ pc' = "lookup"
            /\ UNCHANGED outcome
       ELSE End("panic") /\ UNCHANGED <<cur, level>>
    /\ UNCHANGED <<checks, lograw, sb, lk, ino, ft, want, block_index, ext, data,
                   offset, rd, found>>

\* let hosts_data = hosts_inode.data(&sb, &file, 0)?
HostsData ==
    /\ pc = "data"
    /\ last' = "Inode::data"
    /\ IF ~ExtentReadable(0)
       THEN End("err") /\ ext' = None /\ data' = None
       ELSE \E e \in ExtVals :
               LET r == InodeData(Get(ino), Get(sb), 0, e)
               IN  /\ ext' = Some(e)
                   /\ IF r.st = "ok"
                      THEN /\ data' = Some([off |-> r.off, len |-> r.len])
                           /\ pc' = "read"
                           /\ UNCHANGED outcome
                      ELSE End("panic") /\ data' = None
    /\ UNCHANGED <<checks, level, cur, lograw, sb, lk, ino, ft, want, block_index,
                   offset, entries, at, rd, found>>

\* Reader::new(&hosts_data).vec(0, hosts_inode.size as usize)?
ReadData ==
    /\ pc = "read"
    /\ last' = "Reader::vec"
    /\ \E io \in BOOLEAN :
          IF io /\ WLeq(Get(ino).size, Get(data).len)
          THEN End("ok")
          ELSE End("err")
    /\ UNCHANGED <<checks, level, cur, lograw, sb, lk, ino, ft, want, block_index,
                   ext, data, offset, entries, at, rd, found>>

Next ==
    \/ SuperblockNew
    \/ InodeLookup
    \/ Filetype
    \/ ChildStart
    \/ DirBlock
    \/ ScanRecord
    \/ ScanEnd
    \/ ChildReturn
    \/ Expect
    \/ HostsData
    \/ ReadData

Spec == Init /\ [][Next]_vars

----------------------------------------------------------------------------
(* File-type classification on every mode: the states in which main() has *)
(* decoded the root inode, for every mode the device may hold there.       *)

NominalSb == [magic |-> 61267, block_size |-> N(4096), blocks_per_group |-> 32768,
              inodes_per_group |-> 8192, inode_size |-> 256]

InitFT ==
    /\ checks \in BOOLEAN
    /\ pc = "filetype"
    /\ outcome = "running"
    /\ last = "InodeNumber::inode"
    /\ level = 0
    /\ cur = RootInode
    /\ lograw = Some(N(2))
    /\ sb = Some(NominalSb)
    /\ lk = Some(inode_slice(RootInode, NominalSb, [lo |-> N(5), hi |-> N(0)]))
    /\ ino \in {Some([mode |-> m, size |-> N(20),
                      block |-> [magic |-> 62218, entries |-> 1, depth |-> 0]]) :
                m \in AllModeVals}
    /\ ft = None
    /\ want = <<>>
    /\ block_index = 0
    /\ ext = None
    /\ data = None
    /\ offset = 0
    /\ entries = <<>>
    /\ at = <<>>
    /\ rd = None
    /\ found = None

NextFT == Filetype

SpecFT == InitFT /\ [][NextFT]_vars

----------------------------------------------------------------------------
(* The claims                                                              *)

\* the top four bits of a 16-bit mode, i.e. (mode & 0xF000) / 0x1000
Tag(mode) == mode \div 4096

BadHeader(b) == b.magic # 62218 \/ b.depth # 0

\* C9: for every 16-bit mode, Inode::filetype depends only on mode & 0xF000:
\* the tags 0x1000, 0x2000, 0x4000, 0x6000, 0x8000, 0xA000, 0xC000 give Fifo,
\* CharacterDevice, Directory, BlockDevice, Regular, SymbolicLink, Socket, and
\* each of the other nine tags ends in a panic without returning a file type.
C9_FileTypeClassification ==
    (last = "Inode::filetype") =>
        LET t == Tag(Get(ino).mode)
            names == [k \in {1, 2, 4, 6, 8, 10, 12} |->
                        CASE k = 1  -> "Fifo"
                          [] k = 2  -> "CharacterDevice"
                          [] k = 4  -> "Directory"
                          [] k = 6  -> "BlockDevice"
                          [] k = 8  -> "Regular"
                          [] k = 10 -> "SymbolicLink"
                          [] k = 12 -> "Socket"]
        IN  IF t \in DOMAIN names
            THEN ft = Some(names[t]) /\ outcome = "running" /\ pc # "done"
            ELSE ft = None /\ outcome = "panic" /\ pc = "done"

\* a mode with permission bits has been classified as a directory
C9_Witness ==
    /\ last = "Inode::filetype"
    /\ Get(ino).mode = 16877
    /\ ft = Some("Directory")

\* C7: Inode::child returns the inode number of the first entry, in block order
\* and then record order, whose name equals the requested name; when no
\* enumerated entry has that name it returns the not-found value, not an error.
C7_FirstMatch ==
    (pc = "expect") =>
        LET M == {k \in 1..Len(entries) : entries[k].name = want}
        IN  /\ IsSome(found)
            /\ outcome = "running"
            /\ \A j, k \in 1..Len(entries) :
                  j < k => \/ at[j][1] < at[k][1]
                           \/ at[j][1] = at[k][1] /\ at[j][2] <= at[k][2]
            /\ M = {} => Get(found) = None
            /\ M # {} => \E k \in M : /\ \A j \in M : k <= j
                                      /\ Get(found) = Some(entries[k].inode)

\* two entries carry the requested name with different inodes; the first is returned
C7_Witness ==
    /\ pc = "expect"
    /\ Len(entries) = 2
    /\ entries[1].name = want /\ entries[2].name = want
    /\ entries[1].inode # entries[2].inode
    /\ found = Some(Some(entries[1].inode))

\* C3: an extent header with depth # 0, an extent record with len # 1, an
\* inline area whose first u16 is not 0xF30A and a superblock whose block_size
\* is 1024 each make the operation that meets them fail, and no byte range and
\* no directory-entry list is returned.
C3_RejectedInputs ==
    /\ (IsSome(ino) /\ BadHeader(Get(ino).block)) =>
          /\ data = None /\ found = None
          /\ pc \notin {"block", "scan", "expect", "read"}
          /\ last \in {"Inode::child", "Inode::data"} =>
                pc = "done" /\ outcome = "panic"
    /\ (IsSome(ext) /\ Get(ext).len # 1) =>
          data = None /\ found = None /\ pc = "done" /\ outcome = "panic"
    /\ (IsSome(sb) /\ Get(sb).block_size = N(1024)) =>
          /\ lk = None /\ ino = None
          /\ last = "InodeNumber::inode" => pc = "done" /\ outcome = "panic"

\* Inode::data met an extent record with len = 2 under a valid header, in the
\* second block of a directory, after the first block had contributed an entry
C3_Witness ==
    /\ last = "Inode::data"
    /\ ~BadHeader(Get(ino).block)
    /\ IsSome(ext) /\ Get(ext).len = 2
    /\ block_index = 1 /\ Len(entries) > 0
    /\ pc = "done" /\ outcome = "panic"

\* the physical block number of an extent record: hi * 2^32 + lo
StartOf(e) == WAdd(WMul(N(e.hi), WPow2(32)), N(e.lo))

\* C1: for an inode whose inline header has the extent magic, depth 0 and
\* entries E, and an index i < E whose extent record has len = 1, the byte
\* range Inode::data returns is [start * block_size, (start + 1) * block_size)
\* with start = (u16 at 0x6) * 2^32 + (u32 at 0x8).
C1_ExtentRange ==
    IsSome(data) =>
        LET e  == Get(ext)
            bs == Get(sb).block_size
            d  == Get(data)
        IN  /\ ~BadHeader(Get(ino).block) /\ e.len = 1
            /\ d.off = WMul(StartOf(e), bs)
            /\ WAdd(d.off, d.len) = WMul(WAdd(StartOf(e), N(1)), bs)

\* C2: for an inode number n >= 1 and a superblock with inodes_per_group > 0
\* and block_size # 1024, the group is (n-1) div inodes_per_group, the
\* descriptor is read at block_size + group * 64, and the inode record is the
\* inode_size-byte window at inode_table * block_size +
\* ((n-1) mod inodes_per_group) * inode_size, inode_table being lo + hi * 2^32.
C2_InodeAddressing ==
    IsSome(lk) =>
        LET l   == Get(lk)
            s   == Get(sb)
            tab == WAdd(l.desc.lo, WMul(l.desc.hi, WPow2(32)))
            idx == (l.n - 1) % s.inodes_per_group
        IN  /\ l.n >= 1 /\ s.inodes_per_group > 0 /\ s.block_size # N(1024)
            /\ l.group * s.inodes_per_group <= l.n - 1
            /\ l.n - 1 < (l.group + 1) * s.inodes_per_group
            /\ l.desc_off = WAdd(s.block_size, WMul(N(l.group), N(64)))
            /\ l.off = WAdd(WMul(tab, s.block_size), WMul(N(idx), N(s.inode_size)))
            /\ l.len = s.inode_size

\* C4: Superblock::new fails whenever the u16 at 1024+0x38 is not 0xEF53; no
\* Superblock is produced from a volume with a wrong magic.
C4_MagicChecked == IsSome(sb) => Get(sb).magic = 61267

\* C5: in each data block the scan of Inode::dir_entries starts at offset 0,
\* advances by each record's record length and stops at the first record with
\* inode 0 or when the offset reaches the block's length; every returned entry
\* starts inside its block, none has inode 0, and no byte outside
\* [start * block_size, (start + 1) * block_size) is read for the block.
C5_DirectoryScan ==
    /\ \A k \in 1..Len(entries) :
          /\ entries[k].inode # 0
          /\ IsSome(sb) => WLess(N(at[k][2]), Get(sb).block_size)
          /\ (k = 1 \/ at[k - 1][1] # at[k][1]) => at[k][2] = 0
          /\ (k > 1 /\ at[k - 1][1] = at[k][1]) =>
                at[k][2] = at[k - 1][2] + entries[k - 1].len
    /\ (pc = "scan") => \/ Len(entries) = 0 /\ offset = 0
                        \/ at[Len(entries)][1] # block_index /\ offset = 0
                        \/ /\ at[Len(entries)][1] = block_index
                           /\ offset = at[Len(entries)][2] + entries[Len(entries)].len
    /\ (IsSome(rd) /\ Get(rd).inode = 0 /\ outcome = "running") => pc # "scan"
    /\ (IsSome(rd) /\ IsSome(ext)) =>
          LET bs == Get(sb).block_size
          IN  /\ WLeq(WMul(StartOf(Get(ext)), bs), Get(rd).lo)
              /\ WLeq(Get(rd).hi, WMul(WAdd(StartOf(Get(ext)), N(1)), bs))

\* C6: a child lookup on an inode whose file-type tag is not Directory ends in
\* a fatal "not a directory" outcome, and the data blocks of that inode are
\* never scanned as directory entries.
C6_DirectoryRequired ==
    (IsSome(ino) /\ Tag(Get(ino).mode) # 4) =>
        /\ pc \notin {"block", "scan", "expect"}
        /\ rd = None
        /\ last = "Inode::child" => pc = "done" /\ outcome = "panic"

\* C8: Superblock::new yields block_size = 2^(10 + log_block_size) for every
\* value of the u32 read at 1024+0x18, with no wrap-around or truncation.
C8_BlockSize ==
    IsSome(lograw) =>
        LET e == WAdd(N(10), Get(lograw))
        IN  /\ IsSome(sb)
            /\ Fits(e, 1) /\ e[1] < 8 * WLen
            /\ Get(sb).block_size = WPow2(e[1])

\* C10: Inode::dir_entries finishes on every content of the data blocks,
\* because the scan offset strictly increases on every iteration that does
\* not stop the scan.
C10_OffsetIncreases ==
    [][(pc = "scan" /\ pc' = "scan") => offset' > offset]_vars

====
